---- MODULE Spec2Model ----
(***************************************************************************)
(* A model of normegil/rest: the collection link builder (collection.go)   *)
(* and the database DAO (persistence.go).                                  *)
(*                                                                         *)
(* Strings are sequences of one-character strings, so that formatting,     *)
(* escaping and parsing are computed the way the code computes them.       *)
(* int64 is modelled by a two's-complement integer of WordBits bits.       *)
(***************************************************************************)
EXTENDS Integers, Sequences, FiniteSets, TLC

\* ------------------------------------------------------------- bounds ----

\* Width of the machine integer standing for int64.
WordBits == 5
\* Largest total number of items (CollectionResponseBuilder.MaxNBItems) drawn.
MaxTotal == 10

\* ------------------------------------------------------------ int64 ------

RECURSIVE Pow2(_)
Pow2(n) == IF n = 0 THEN 1 ELSE 2 * Pow2(n - 1)

\* math.MaxInt64 and math.MinInt64 at the model's width.
MaxInt64 == Pow2(WordBits - 1) - 1
MinInt64 == 0 - Pow2(WordBits - 1)

\* Two's-complement wrap-around of int64 arithmetic.
Wrap(x) == ((x - MinInt64) % Pow2(WordBits)) + MinInt64

Abs(x) == IF x < 0 THEN 0 - x ELSE x

\* Go's integer division and remainder truncate toward zero.
GoDiv(a, b) == IF (a < 0) = (b < 0) THEN Abs(a) \div Abs(b) ELSE 0 - (Abs(a) \div Abs(b))
GoMod(a, b) == a - b * GoDiv(a, b)

\* ----------------------------------------------------------- strconv -----

DigitChars == <<"0", "1", "2", "3", "4", "5", "6", "7", "8", "9">>

IsDigit(c) == \E i \in 1..10 : DigitChars[i] = c
DigitVal(c) == (CHOOSE i \in 1..10 : DigitChars[i] = c) - 1

RECURSIVE FormatDigits(_)
FormatDigits(n) ==
    IF n < 10 THEN <<DigitChars[n + 1]>>
    ELSE FormatDigits(n \div 10) \o <<DigitChars[(n % 10) + 1]>>

\* strconv.FormatInt(n, 10)
FormatInt(n) == IF n < 0 THEN <<"-">> \o FormatDigits(0 - n) ELSE FormatDigits(n)

RECURSIVE DigitsValue(_, _)
DigitsValue(s, acc) ==
    IF s = <<>> THEN acc ELSE DigitsValue(Tail(s), acc * 10 + DigitVal(Head(s)))

\* strconv.ParseInt(s, 10, 64): an optional sign, then decimal digits only;
\* a value outside int64 is a range error.
ParseInt(s) ==
    LET neg    == s # <<>> /\ Head(s) = "-"
        signed == s # <<>> /\ Head(s) \in {"-", "+"}
        digits == IF signed THEN Tail(s) ELSE s
        wellFormed == digits # <<>> /\ \A i \in 1..Len(digits) : IsDigit(digits[i])
        mag    == IF wellFormed THEN DigitsValue(digits, 0) ELSE 0
        val    == IF neg THEN 0 - mag ELSE mag
    IN  IF wellFormed /\ val >= MinInt64 /\ val <= MaxInt64
        THEN [ok |-> TRUE, val |-> val]
        ELSE [ok |-> FALSE, val |-> 0]

\* ----------------------------------------------------------- net/url -----

RECURSIVE IndexFrom(_, _, _)
IndexFrom(s, c, i) ==
    IF i > Len(s) THEN 0 ELSE IF s[i] = c THEN i ELSE IndexFrom(s, c, i + 1)

\* Position of the first c in s, 0 when there is none.
IndexOf(s, c) == IndexFrom(s, c, 1)

\* strings.Cut(s, c)
CutBefore(s, c) == IF IndexOf(s, c) = 0 THEN s ELSE SubSeq(s, 1, IndexOf(s, c) - 1)
CutAfter(s, c) == IF IndexOf(s, c) = 0 THEN <<>> ELSE SubSeq(s, IndexOf(s, c) + 1, Len(s))

\* The characters url.QueryEscape rewrites, with their escapes.
EscapedChars == {"&", "=", "%", "+", " "}
EscapeOf(c) ==
    CASE c = "&" -> <<"%", "2", "6">>
      [] c = "=" -> <<"%", "3", "D">>
      [] c = "%" -> <<"%", "2", "5">>
      [] c = "+" -> <<"%", "2", "B">>
      [] c = " " -> <<"+">>
      [] OTHER   -> <<c>>

RECURSIVE QueryEscape(_)
QueryEscape(s) == IF s = <<>> THEN <<>> ELSE EscapeOf(Head(s)) \o QueryEscape(Tail(s))

\* url.QueryUnescape: [ok, val]; a "%" not followed by a known pair fails.
RECURSIVE QueryUnescape(_)
QueryUnescape(s) ==
    IF s = <<>> THEN [ok |-> TRUE, val |-> <<>>]
    ELSE IF Head(s) = "%" THEN
        IF Len(s) >= 3 /\ \E c \in EscapedChars : EscapeOf(c) = SubSeq(s, 1, 3)
        THEN LET c    == CHOOSE d \in EscapedChars : EscapeOf(d) = SubSeq(s, 1, 3)
                 rest == QueryUnescape(SubSeq(s, 4, Len(s)))
             IN  [ok |-> rest.ok, val |-> <<c>> \o rest.val]
        ELSE [ok |-> FALSE, val |-> <<>>]
    ELSE LET rest == QueryUnescape(Tail(s))
             c    == IF Head(s) = "+" THEN " " ELSE Head(s)
         IN  [ok |-> rest.ok, val |-> <<c>> \o rest.val]

\* url.Values is a map from key to the list of its values.
NoValues == [k \in {} |-> <<>>]

\* url.Values.Get: the first value of the key, "" when the key is absent.
ValuesGet(m, k) == IF k \in DOMAIN m /\ m[k] # <<>> THEN m[k][1] ELSE <<>>

\* url.Values.Del
ValuesDel(m, k) == [j \in DOMAIN m \ {k} |-> m[j]]

ValuesAdd(m, k, v) ==
    IF k \in DOMAIN m THEN [m EXCEPT ![k] = Append(@, v)]
    ELSE [j \in DOMAIN m \cup {k} |-> IF j = k THEN <<v>> ELSE m[j]]

\* url.ParseQuery: pairs are separated by "&", key and value by the first
\* "="; an empty pair or one that does not unescape is skipped.
RECURSIVE ParseQueryInto(_, _)
ParseQueryInto(q, m) ==
    IF q = <<>> THEN m
    ELSE LET pair == CutBefore(q, "&")
             rest == CutAfter(q, "&")
             k    == QueryUnescape(CutBefore(pair, "="))
             v    == QueryUnescape(CutAfter(pair, "="))
         IN  IF pair = <<>> \/ ~k.ok \/ ~v.ok THEN ParseQueryInto(rest, m)
             ELSE ParseQueryInto(rest, ValuesAdd(m, k.val, v.val))

ParseQuery(q) == ParseQueryInto(q, NoValues)

OffsetKey == <<"o", "f", "f", "s", "e", "t">>
LimitKey == <<"l", "i", "m", "i", "t">>
ExpandKey == <<"e", "x", "p", "a", "n", "d">>
SortKey == <<"s", "o", "r", "t">>

\* The keys a request can carry, in the byte order url.Values.Encode sorts by.
SortedKeys == <<ExpandKey, LimitKey, OffsetKey, SortKey>>

RECURSIVE EncodeValues(_, _, _)
EncodeValues(k, vs, buf) ==
    IF vs = <<>> THEN buf
    ELSE EncodeValues(k, Tail(vs),
            buf \o (IF buf # <<>> THEN <<"&">> ELSE <<>>)
                \o QueryEscape(k) \o <<"=">> \o QueryEscape(Head(vs)))

RECURSIVE EncodeFrom(_, _, _)
EncodeFrom(m, i, buf) ==
    IF i > Len(SortedKeys) THEN buf
    ELSE IF SortedKeys[i] \in DOMAIN m
         THEN EncodeFrom(m, i + 1, EncodeValues(SortedKeys[i], m[SortedKeys[i]], buf))
         ELSE EncodeFrom(m, i + 1, buf)

\* url.Values.Encode: "k=v" pairs in key order, joined by "&".
Encode(m) == EncodeFrom(m, 1, <<>>)

\* url.URL, as far as this package uses it. The zero value is EmptyURL.
EmptyURL == [path |-> <<>>, rawQuery |-> <<>>, forceQuery |-> FALSE]

\* url.Parse: the query is what follows the first "?"; a lone trailing "?"
\* sets ForceQuery.
URLParse(s) ==
    IF IndexOf(s, "?") = 0 THEN [path |-> s, rawQuery |-> <<>>, forceQuery |-> FALSE]
    ELSE [path |-> CutBefore(s, "?"), rawQuery |-> CutAfter(s, "?"),
          forceQuery |-> CutAfter(s, "?") = <<>>]

\* url.URL.String
URLString(u) ==
    u.path \o (IF u.forceQuery \/ u.rawQuery # <<>> THEN <<"?">> \o u.rawQuery ELSE <<>>)

\* -------------------------------------------------------- collection.go --

VARIABLES
    builder,      \* the CollectionResponseBuilder: BaseURL, MaxNBItems, QueryParams, Items
    pagination,   \* Build's local `pagination`, as loadPaginationInfo returned it
    response,     \* what the last Build returned: a CollectionResponse or NoResponse
    buildErr      \* whether the last Build returned an error

\* Pagination{offset, limit}
NewPagination(offset, limit) == [offset |-> offset, limit |-> limit]

\* Pagination.Limit: a limit of zero or less reads as math.MaxInt64.
Limit(p) == IF p.limit <= 0 THEN MaxInt64 ELSE p.limit

\* Pagination.Offset
Offset(p) == p.offset

\* loadPaginationInfo: offset and limit default to 0 when absent; a value
\* that does not parse as an int64 is an error.
loadPaginationInfo(params) ==
    LET offsetStr == ValuesGet(params, OffsetKey)
        limitStr  == ValuesGet(params, LimitKey)
        offset    == IF offsetStr # <<>> THEN ParseInt(offsetStr) ELSE [ok |-> TRUE, val |-> 0]
        limit     == IF limitStr # <<>> THEN ParseInt(limitStr) ELSE [ok |-> TRUE, val |-> 0]
    IN  IF ~offset.ok THEN [ok |-> FALSE, p |-> NewPagination(0, 0)]
        ELSE IF ~limit.ok THEN [ok |-> FALSE, p |-> NewPagination(0, 0)]
        ELSE [ok |-> TRUE, p |-> NewPagination(offset.val, limit.val)]

\* What the link functions return: the URL, and the query parameters as the
\* call left them (url.Values is a map, shared with the caller).
Link(url, params) == [url |-> url, params |-> params]

\* collectionURL: deletes offset and limit from the caller's parameters, then
\* parses base + "?" + "offset=O&limit=L" + the encoded remaining parameters.
collectionURL(baseURL, offset, limit, queryParams) ==
    LET params    == ValuesDel(ValuesDel(queryParams, OffsetKey), LimitKey)
        paramsStr == Encode(params)
        paged     == IF limit > 0 /\ limit # MaxInt64
                     THEN OffsetKey \o <<"=">> \o FormatInt(offset)
                          \o <<"&">> \o LimitKey \o <<"=">> \o FormatInt(limit)
                     ELSE <<>>
        str       == IF limit > 0 \/ paramsStr # <<>>
                     THEN URLString(baseURL) \o <<"?">> \o paged \o paramsStr
                     ELSE URLString(baseURL)
    IN  Link(URLParse(str), params)

\* generateLastURL
generateLastURL(baseURL, offset, limit, maxNbItems, queryParams) ==
    IF limit <= 0 THEN Link(baseURL, queryParams)
    ELSE LET pages           == GoDiv(maxNbItems, limit)
             nbPagesMinusOne == IF GoMod(maxNbItems, limit) = 0 THEN Wrap(pages - 1) ELSE pages
             lastOffset      == Wrap(nbPagesMinusOne * limit)
         IN  collectionURL(baseURL, lastOffset, limit, queryParams)

\* generatePreviousURL
generatePreviousURL(baseURL, offset, limit, queryParams) ==
    IF limit <= 0 THEN Link(baseURL, queryParams)
    ELSE IF offset > 0
         THEN LET previousOffset == IF Wrap(offset - limit) < 0 THEN 0 ELSE Wrap(offset - limit)
              IN  collectionURL(baseURL, previousOffset, limit, queryParams)
         ELSE Link(EmptyURL, queryParams)

\* generateNextURL
generateNextURL(baseURL, offset, limit, maxNBItems, queryParams) ==
    IF limit <= 0 THEN Link(baseURL, queryParams)
    ELSE IF Wrap(limit + offset) < maxNBItems
         THEN collectionURL(baseURL, Wrap(offset + limit), limit, queryParams)
         ELSE Link(EmptyURL, queryParams)

NoResponse == [none |-> TRUE]

\* CollectionResponseBuilder.Build: the response, the error flag, the local
\* pagination and the builder's QueryParams as the five link calls left them.
BuildResult(b) ==
    LET loaded   == loadPaginationInfo(b.QueryParams)
        p        == loaded.p
        current  == collectionURL(b.BaseURL, Offset(p), Limit(p), b.QueryParams)
        first    == collectionURL(b.BaseURL, 0, Limit(p), current.params)
        last     == generateLastURL(b.BaseURL, Offset(p), Limit(p), b.MaxNBItems, first.params)
        previous == generatePreviousURL(b.BaseURL, Offset(p), Limit(p), last.params)
        next     == generateNextURL(b.BaseURL, Offset(p), Limit(p), b.MaxNBItems, previous.params)
    IN  IF ~loaded.ok
        THEN [err |-> TRUE, pagination |-> p, response |-> NoResponse, params |-> b.QueryParams]
        ELSE [err |-> FALSE, pagination |-> p, params |-> next.params,
              response |-> [Current  |-> current.url,
                            First    |-> first.url,
                            Last     |-> last.url,
                            Previous |-> previous.url,
                            Next     |-> next.url,
                            Offset   |-> Offset(p),
                            Limit    |-> Limit(p),
                            TotalNumberOfItems |-> b.MaxNBItems,
                            Items    |-> b.Items]]

\* The values of offset and limit a request's query is drawn with.
OffsetInputs == {<<>>} \cup {FormatInt(n) : n \in {-1, 0, 1, 2, 3, 6}}
LimitInputs ==
    {<<>>, <<"x">>} \cup {FormatInt(n) : n \in {-1, 0, 1, 2, 3, MaxInt64 - 1, MaxInt64}}
\* The other parameters of the request, as they stand in its raw query.
ExtraInputs ==
    { <<>>,
      ExpandKey \o <<"=", "t", "r", "u", "e">>,
      ExpandKey \o <<"=", "t", "r", "u", "e", "&">> \o SortKey \o <<"=", "a", "%", "2", "6", "b">> }
TotalInputs == 0..MaxTotal

Param(k, v) == IF v = <<>> THEN <<>> ELSE k \o <<"=">> \o v
Join(a, b) == IF a = <<>> THEN b ELSE IF b = <<>> THEN a ELSE a \o <<"&">> \o b

\* The raw query of a request (r.URL.RawQuery).
RawQuery(o, l, x) == Join(Join(Param(OffsetKey, o), Param(LimitKey, l)), x)

\* The collection's own address, as getBaseURL parses it.
BaseURI == URLParse(<<"h", "/", "c">>)

\* The builder as GetAll sets it up: WithBaseURI, WithItems,
\* WithMaxNumberOfItems, WithQueryParams(r.URL.Query()).
NewBuilder(raw, total) ==
    [BaseURL |-> BaseURI, MaxNBItems |-> total, QueryParams |-> ParseQuery(raw), Items |-> <<>>]

linkVars == <<builder, pagination, response, buildErr>>

VARIABLES
    construction, \* NewDatabaseDAO: the Prepare calls the database saw, and what it returned
    served,       \* URLContructor: the incoming request and the requests the wrapped handler got
    unmarshaller, \* DefaultController.Unmarshaller, the one value all the Update calls decode into
    put,          \* the Update calls under way, each with its locals and what it did
    listing       \* the last GetAll call: its request, its DAO calls and what it wrote

webVars == <<construction, served, unmarshaller, put, listing>>

InitLinks ==
    /\ \E o \in OffsetInputs, l \in LimitInputs, x \in ExtraInputs, t \in TotalInputs :
          builder = NewBuilder(RawQuery(o, l, x), t)
    /\ pagination = NewPagination(0, 0)
    /\ response = NoResponse
    /\ buildErr = FALSE

\* b.Build()
BuildCall ==
    LET r == BuildResult(builder)
    IN  /\ builder' = [builder EXCEPT !.QueryParams = r.params]
        /\ pagination' = r.pagination
        /\ response' = r.response
        /\ buildErr' = r.err

\* ------------------------------------------------------- persistence.go --

VARIABLES
    store,   \* the table behind the prepared queries: its rows, in store order
    last,    \* the DAO call a sequential caller made last, with what it returned
    proc     \* per concurrent request: where its DAO call stands, and its locals

\* Most rows the table is let grow to.
MaxRows == 3

\* A nil Identifier.
Nil == "nil"

IDS == {"x", "y"}
Payloads == {"a", "b"}

\* An IdentifiableEntity: its identifier (Nil when it has none) and its data.
Entities == [id : IDS \cup {Nil}, data : Payloads]

\* A nil Entity.
NilEntity == [id |-> Nil, data |-> Nil]

\* IdentifiableEntity.ID
ID(e) == e.id

\* IdentifiableEntity.WithID: a new value; the receiver is left as it was.
WithID(e, id) == [id |-> id, data |-> e.data]

\* Mapper.ToSlice: the entity's fields in the order the write queries bind them.
ToSlice(e) == <<e.id, e.data>>

\* Mapper.ToEntities: one entity per row of the cursor.
ToEntities(rows) == [i \in DOMAIN rows |-> [id |-> rows[i][1], data |-> rows[i][2]]]

\* IdentifierGenerator.Generate: the identifiers a generator may return.
Generate == IDS

\* The catalog's queries, run against the table.
QueryGet(st, id) == SelectSeq(st, LAMBDA r : r[1] = id)
ExecInsert(st, fields) == Append(st, fields)
ExecUpdate(st, fields) == [i \in DOMAIN st |-> IF st[i][1] = fields[1] THEN fields ELSE st[i]]
ExecDelete(st, id) == SelectSeq(st, LAMBDA r : r[1] # id)

\* What can fail under a DAO call: the generator, WithID, running a query,
\* mapping its rows, flattening the entity, executing a write.
Faults == {"none", "generate", "withID", "query", "map", "toSlice", "exec"}

\* What a DAO call returns and leaves: the table, the identifier and the
\* entity returned (nil when none), the error flag, the queries it executed.
Outcome(st, id, entity, err, queries) ==
    [store |-> st, id |-> id, entity |-> entity, err |-> err, queries |-> queries]

\* Get as it would be if it returned the first of several rows.
GetOutcomeFirstRow(st, id, fault) ==
    LET entities == ToEntities(QueryGet(st, id))
    IN  IF fault \in {"query", "map"}
        THEN Outcome(st, Nil, NilEntity, TRUE, IF fault = "map" THEN <<"get">> ELSE <<>>)
        ELSE IF Len(entities) = 0 THEN Outcome(st, Nil, NilEntity, FALSE, <<"get">>)
        ELSE Outcome(st, Nil, entities[1], FALSE, <<"get">>)

\* DatabaseDAO.Get
GetOutcome(st, id, fault) ==
    LET entities   == ToEntities(QueryGet(st, id))
        nbEntities == Len(entities)
    IN  IF fault = "query" THEN Outcome(st, Nil, NilEntity, TRUE, <<>>)
        ELSE IF fault = "map" THEN Outcome(st, Nil, NilEntity, TRUE, <<"get">>)
        ELSE IF nbEntities > 1 THEN Outcome(st, Nil, NilEntity, TRUE, <<"get">>)
        ELSE IF nbEntities = 0 THEN Outcome(st, Nil, NilEntity, FALSE, <<"get">>)
        ELSE Outcome(st, Nil, entities[1], FALSE, <<"get">>)

\* Set's first lines as they would be if WithID's result were dropped.
SetPrepareDropsWithID(e, g, fault) ==
    IF ID(e) = Nil
    THEN [err |-> fault \in {"generate", "withID"}, check |-> FALSE, entity |-> e,
          shouldInsert |-> fault \notin {"generate", "withID"}]
    ELSE [err |-> FALSE, check |-> TRUE, entity |-> e, shouldInsert |-> FALSE]

\* DatabaseDAO.Set, lines 190-203 up to the existence check: an entity
\* without identifier gets a generated one and is inserted; one with an
\* identifier goes through the check.
SetPrepare(e, g, fault) ==
    IF ID(e) = Nil
    THEN IF fault \in {"generate", "withID"}
         THEN [err |-> TRUE, check |-> FALSE, entity |-> e, shouldInsert |-> FALSE]
         ELSE [err |-> FALSE, check |-> FALSE, entity |-> WithID(e, g), shouldInsert |-> TRUE]
    ELSE [err |-> FALSE, check |-> TRUE, entity |-> e, shouldInsert |-> FALSE]

\* The existence test as it would be with the comparison inverted.
SetDecideInverted(found) == found.entity # NilEntity

\* DatabaseDAO.Set, lines 204-208: insert when Get found nothing.
SetDecide(found) == found.entity = NilEntity

\* The branch as it would be if the write looked at the table again.
InsertBranchRechecked(st, entity, shouldInsert) == QueryGet(st, ID(entity)) = <<>>

\* DatabaseDAO.Set, line 215: the branch is taken on the local shouldInsert,
\* as it was computed before; the table is not looked at again.
InsertBranch(st, entity, shouldInsert) == shouldInsert

\* DatabaseDAO.Set, lines 211-227: flatten the entity, execute the insert or
\* the update query, return the entity's identifier.
SetExec(st, entity, shouldInsert, fault, queries) ==
    IF fault = "toSlice" THEN Outcome(st, Nil, NilEntity, TRUE, queries)
    ELSE IF InsertBranch(st, entity, shouldInsert)
         THEN IF fault = "exec" THEN Outcome(st, Nil, NilEntity, TRUE, Append(queries, "insert"))
              ELSE Outcome(ExecInsert(st, ToSlice(entity)), ID(entity), NilEntity, FALSE,
                           Append(queries, "insert"))
         ELSE IF fault = "exec" THEN Outcome(st, Nil, NilEntity, TRUE, Append(queries, "update"))
              ELSE Outcome(ExecUpdate(st, ToSlice(entity)), ID(entity), NilEntity, FALSE,
                           Append(queries, "update"))

\* Set as it would be without the existence check: every entity is inserted.
SetOutcomeUnchecked(st, e, g, fault) ==
    LET prep == SetPrepare(e, g, fault)
    IN  IF prep.err THEN Outcome(st, Nil, NilEntity, TRUE, <<>>)
        ELSE SetExec(st, prep.entity, TRUE, fault, <<>>)

\* DatabaseDAO.Set, run without interruption.
SetOutcome(st, e, g, fault) ==
    LET prep  == SetPrepare(e, g, fault)
        found == GetOutcome(st, ID(e), fault)
    IN  IF prep.err THEN Outcome(st, Nil, NilEntity, TRUE, <<>>)
        ELSE IF ~prep.check THEN SetExec(st, prep.entity, prep.shouldInsert, fault, <<>>)
        ELSE IF found.err THEN Outcome(st, Nil, NilEntity, TRUE, found.queries)
        ELSE SetExec(st, prep.entity, SetDecide(found), fault, found.queries)

\* Delete as it would be with an existence check in front of the query.
DeleteOutcomeChecked(st, id, fault) ==
    IF QueryGet(st, id) = <<>> THEN Outcome(st, Nil, NilEntity, TRUE, <<"get">>)
    ELSE IF fault = "exec" THEN Outcome(st, Nil, NilEntity, TRUE, <<"get", "delete">>)
    ELSE Outcome(ExecDelete(st, id), Nil, NilEntity, FALSE, <<"get", "delete">>)

\* DatabaseDAO.Delete
DeleteOutcome(st, id, fault) ==
    IF fault = "exec" THEN Outcome(st, Nil, NilEntity, TRUE, <<"delete">>)
    ELSE Outcome(ExecDelete(st, id), Nil, NilEntity, FALSE, <<"delete">>)

\* The record of a sequential caller's last call: the identifier or the
\* entity it passed, the generated identifier and the failure drawn for it,
\* the number of rows its identifier had when it was made, and what came back.
Called(op, key, arg, gen, fault, matched, out) ==
    [op |-> op, key |-> key, arg |-> arg, gen |-> gen, fault |-> fault,
     matched |-> matched, id |-> out.id, entity |-> out.entity, err |-> out.err,
     queries |-> out.queries]

NoCall == [op |-> "none", key |-> Nil, arg |-> NilEntity, gen |-> Nil, fault |-> "none",
           matched |-> 0, id |-> Nil, entity |-> NilEntity, err |-> FALSE, queries |-> <<>>]

\* d.Get(id)
Get ==
    /\ \E id \in IDS, fault \in {"none", "query", "map"} :
          LET out == GetOutcome(store, id, fault)
          IN  /\ store' = out.store
              /\ last' = Called("Get", id, NilEntity, Nil, fault,
                                Len(QueryGet(store, id)), out)
    /\ UNCHANGED <<linkVars, webVars, proc>>

\* The failures that can strike a Set of e, and the identifiers the generator
\* may return for it (none is generated for an entity that has one).
SetFaults(e) ==
    IF ID(e) = Nil THEN {"none", "generate", "withID", "toSlice", "exec"}
    ELSE {"none", "query", "map", "toSlice", "exec"}
Generated(e) == IF ID(e) = Nil THEN Generate ELSE {Nil}

\* d.Set(entity)
Set ==
    /\ \E e \in Entities :
       \E g \in Generated(e), fault \in SetFaults(e) :
          LET out == SetOutcome(store, e, g, fault)
              id  == IF ID(e) = Nil THEN g ELSE ID(e)
          IN  /\ Len(out.store) <= MaxRows
              /\ store' = out.store
              /\ last' = Called("Set", Nil, e, g, fault, Len(QueryGet(store, id)), out)
    /\ UNCHANGED <<linkVars, webVars, proc>>

\* d.Delete(id)
Delete ==
    /\ \E id \in IDS, fault \in {"none", "exec"} :
          LET out == DeleteOutcome(store, id, fault)
          IN  /\ store' = out.store
              /\ last' = Called("Delete", id, NilEntity, Nil, fault,
                                Len(QueryGet(store, id)), out)
    /\ UNCHANGED <<linkVars, webVars, proc>>

\* ---------------------------------------------- concurrent DAO callers ---

\* The requests that call the DAO at the same time.
Procs == {"p1", "p2", "p3"}

\* The identifier and the data the concurrent requests write: they race for
\* one identifier.
RaceIDs == {"x"}
RacePayloads == {"a"}
RaceEntities == [id : RaceIDs \cup {Nil}, data : RacePayloads]

\* A request's call: where it stands (idle, check, write, done), the method
\* and its argument, Set's locals entity and shouldInsert, what its existence
\* check observed, the write query it executed, the number of rows its
\* identifier had when that query ran, and what the call returned.
Request(pc, op, arg, entity, shouldInsert, observed, did, matched, id, err) ==
    [pc |-> pc, op |-> op, arg |-> arg, entity |-> entity, shouldInsert |-> shouldInsert,
     observed |-> observed, did |-> did, matched |-> matched, id |-> id, err |-> err]

IdleRequest == Request("idle", "none", NilEntity, NilEntity, FALSE, "none", "none", 0, Nil, FALSE)

\* Set, lines 190-203: the call starts; an entity without identifier gets a
\* generated one and goes straight to the write.
SetBegin(p) ==
    /\ proc[p].pc \in {"idle", "done"}
    /\ \E e \in RaceEntities :
       \E g \in Generated(e) \cap (RaceIDs \cup {Nil}) :
          LET prep == SetPrepare(e, g, "none")
          IN  proc' = [proc EXCEPT ![p] =
                  Request(IF prep.check THEN "check" ELSE "write", "Set", e, prep.entity,
                          prep.shouldInsert, "none", "none", 0, Nil, FALSE)]
    /\ UNCHANGED <<linkVars, webVars, store, last>>

\* Set, lines 204-208: the existence check, d.Get(id).
SetCheck(p) ==
    /\ proc[p].pc = "check"
    /\ LET found == GetOutcome(store, ID(proc[p].arg), "none")
       IN  proc' = [proc EXCEPT ![p] =
               IF found.err
               THEN [@ EXCEPT !.pc = "done", !.err = TRUE]
               ELSE [@ EXCEPT !.pc = "write", !.shouldInsert = SetDecide(found),
                              !.observed = IF found.entity = NilEntity THEN "absent"
                                           ELSE "present"]]
    /\ UNCHANGED <<linkVars, webVars, store, last>>

\* Set, lines 211-227: the write, and the return.
SetWrite(p) ==
    /\ proc[p].pc = "write"
    /\ \E fault \in {"none", "exec"} :
          LET out == SetExec(store, proc[p].entity, proc[p].shouldInsert, fault, <<>>)
          IN  /\ Len(out.store) <= MaxRows
              /\ store' = out.store
              /\ proc' = [proc EXCEPT ![p] =
                     [@ EXCEPT !.pc = "done", !.did = out.queries[Len(out.queries)],
                               !.matched = Len(QueryGet(store, ID(proc[p].entity))),
                               !.id = out.id, !.err = out.err]]
    /\ UNCHANGED <<linkVars, webVars, last>>

\* Delete, lines 230-236: one query, start to return.
DeleteCall(p) ==
    /\ proc[p].pc \in {"idle", "done"}
    /\ \E id \in RaceIDs :
          LET out == DeleteOutcome(store, id, "none")
          IN  /\ store' = out.store
              /\ proc' = [proc EXCEPT ![p] =
                     Request("done", "Delete", [id |-> id, data |-> Nil], NilEntity, FALSE,
                             "none", "delete", Len(QueryGet(store, id)), Nil, out.err)]
    /\ UNCHANGED <<linkVars, webVars, last>>

daoVars == <<store, last, proc>>

vars ==
    <<builder, pagination, response, buildErr, store, last, proc,
      construction, served, unmarshaller, put, listing>>

\* No DAO call has been made, no request is under way.
DAOIdle == store = <<>> /\ last = NoCall /\ proc = <<>>

\* No collection response is being built.
LinksIdle ==
    /\ builder = NewBuilder(<<>>, 0)
    /\ pagination = NewPagination(0, 0)
    /\ response = NoResponse
    /\ buildErr = FALSE

\* ------------------------------------- persistence.go: NewDatabaseDAO --

\* The queryKey constants.
getAllEntities == "getAllEntities"
getAllIDs == "getAllIds"
size == "size"
get == "get"
insert == "insert"
update == "update"
delete == "delete"

\* The Queries catalog: the text it gives for each query.
Queries ==
    [k \in {getAllEntities, getAllIDs, size, get, insert, update, delete} |->
        CASE k = getAllEntities -> "list"
          [] k = getAllIDs      -> "list-ids"
          [] k = size           -> "count"
          [] k = get            -> "get"
          [] k = insert         -> "insert"
          [] k = update         -> "update"
          [] k = delete         -> "delete"]

\* The order of the db.Prepare calls in NewDatabaseDAO.
PrepareOrder == <<getAllEntities, getAllIDs, size, get, insert, update, delete>>

\* What NewDatabaseDAO returns, with the Prepare calls the database saw:
\* dao is whether the *DatabaseDAO is non-nil, queries its map of handles
\* (key and text prepared), err the text the error names.
Constructed(dao, queries, err, prepares) ==
    [dao |-> dao, queries |-> queries, err |-> err, prepares |-> prepares]

\* A variant that goes on to the next query after a failed Prepare.
RECURSIVE PrepareFromKeepsGoing(_, _, _, _)
PrepareFromKeepsGoing(i, failing, preparedQueries, prepares) ==
    IF i > Len(PrepareOrder)
    THEN Constructed(TRUE, preparedQueries, Nil, prepares)
    ELSE LET text == Queries[PrepareOrder[i]]
         IN  IF text \in failing
             THEN LET rest == PrepareFromKeepsGoing(i + 1, failing, preparedQueries,
                                                    Append(prepares, text))
                  IN  Constructed(FALSE, {}, text, rest.prepares)
             ELSE PrepareFromKeepsGoing(i + 1, failing,
                                        preparedQueries \cup {<<PrepareOrder[i], text>>},
                                        Append(prepares, text))

\* The body of NewDatabaseDAO from its i-th Prepare on: db.Prepare of the
\* query's text; on an error return nil and the error wrapping that text,
\* else store the handle under the key and go on.
RECURSIVE PrepareFrom(_, _, _, _)
PrepareFrom(i, failing, preparedQueries, prepares) ==
    IF i > Len(PrepareOrder)
    THEN Constructed(TRUE, preparedQueries, Nil, prepares)
    ELSE LET text == Queries[PrepareOrder[i]]
         IN  IF text \in failing
             THEN Constructed(FALSE, {}, text, Append(prepares, text))
             ELSE PrepareFrom(i + 1, failing,
                              preparedQueries \cup {<<PrepareOrder[i], text>>},
                              Append(prepares, text))

\* Before NewDatabaseDAO is called.
NotConstructed == [called |-> FALSE, failing |-> {}, out |-> Constructed(FALSE, {}, Nil, <<>>)]

\* NewDatabaseDAO(db, mapper, queries, idGenerator), on a database that
\* refuses to prepare the texts in `failing`.
NewDatabaseDAO ==
    /\ \E failing \in SUBSET {Queries[k] : k \in DOMAIN Queries} :
          construction' = [called |-> TRUE, failing |-> failing,
                           out |-> PrepareFrom(1, failing, {}, <<>>)]
    /\ UNCHANGED <<linkVars, daoVars, served, unmarshaller, put, listing>>

\* ---------------------------------------------------------------- url.go --

FULL_URL_KEY == "RequestURL"

\* A context: the (key, value) pairs attached so far, the newest last.
Background == <<>>

\* context.WithValue
WithValue(ctx, key, val) == Append(ctx, <<key, val>>)

\* Context.Value: the value of the newest pair with that key, if any.
RECURSIVE Value(_, _)
Value(ctx, key) ==
    IF ctx = <<>> THEN [found |-> FALSE, val |-> <<>>]
    ELSE IF ctx[Len(ctx)][1] = key THEN [found |-> TRUE, val |-> ctx[Len(ctx)][2]]
    ELSE Value(SubSeq(ctx, 1, Len(ctx) - 1), key)

\* An http.Request: its method, its URL and its context.
HTTPRequest(method, url, ctx) == [method |-> method, url |-> url, ctx |-> ctx]

\* Request.WithContext: a copy of the request with the context replaced.
WithContext(r, ctx) == [r EXCEPT !.ctx = ctx]

\* The methods and URLs requests are drawn with.
Methods == {"GET", "POST", "PUT", "PATCH", "DELETE"}
RequestURLs ==
    { URLParse(str) : str \in
        { <<"/">>, <<"/", "c">>, <<"/", "c", "/", "x">>,
          <<"/", "c", "?">>,
          <<"/", "c", "?", "a", "=", "1">>,
          <<"/", "c", "?", "a", "=", "1", "&", "b", "=", "%", "2", "6">>,
          <<"h", "/", "c">>,
          <<"h", "/", "c", "/", "x", "?", "a", "=", "1">> } }
\* The contexts requests arrive with: none, one with another key, one that
\* already has a value under FULL_URL_KEY.
RequestContexts ==
    { Background,
      WithValue(Background, "user", <<"u">>),
      WithValue(WithValue(Background, FULL_URL_KEY, <<"/", "o", "l", "d">>), "user", <<"u">>) }

\* A variant that attaches the path of the URL only.
ServeURLContructorPathOnly(r) ==
    LET url == r.url.path
        ctx == WithValue(r.ctx, FULL_URL_KEY, url)
    IN  <<WithContext(r, ctx)>>

\* The handler URLContructor returns, serving r: the requests it passes to
\* the wrapped handler h, one per h.ServeHTTP call.
ServeURLContructor(r) ==
    LET url == URLString(r.url)
        ctx == WithValue(r.ctx, FULL_URL_KEY, url)
    IN  <<WithContext(r, ctx)>>

\* No request has come in.
NotServed ==
    [called |-> FALSE, request |-> HTTPRequest("GET", EmptyURL, Background), handled |-> <<>>]

\* URLContructor(h).ServeHTTP(w, r)
URLContructor ==
    /\ \E m \in Methods, u \in RequestURLs, c \in RequestContexts :
          LET r == HTTPRequest(m, u, c)
          IN  served' = [called |-> TRUE, request |-> r, handled |-> ServeURLContructor(r)]
    /\ UNCHANGED <<linkVars, daoVars, construction, unmarshaller, put, listing>>

\* ----------------------------------- controller.go: DefaultController --

\* The bodies of the PUT requests: an identifier (or none), a colon, the
\* data; one body that does not decode.
Bodies == { <<"x", ":", "a">>, <<"y", ":", "b">>, <<":", "a">>, <<"?">> }

\* json.Unmarshal(bodyBytes, c.Unmarshaller): whether the body decodes, and
\* the entity the Unmarshaller holds once it has.
UnmarshalJSON(bodyBytes) ==
    LET idStr   == CutBefore(bodyBytes, ":")
        dataStr == CutAfter(bodyBytes, ":")
    IN  IF IndexOf(bodyBytes, ":") = 0 \/ Len(idStr) > 1 \/ Len(dataStr) # 1
        THEN [ok |-> FALSE, entity |-> NilEntity]
        ELSE [ok |-> TRUE,
              entity |-> [id |-> IF idStr = <<>> THEN Nil ELSE idStr[1], data |-> dataStr[1]]]

\* The PUT requests handled at the same time by one DefaultController.
Puts == {"r1", "r2"}

\* An Update call: where it stands (idle, unmarshalID, unmarshalData, set,
\* done), the body it read, whether it called DAO.Set and the entity it
\* passed, the number of c.Handle calls, the response body it wrote.
Updating(pc, bodyBytes, called, passed, handled, written) ==
    [pc |-> pc, bodyBytes |-> bodyBytes, called |-> called, passed |-> passed,
     handled |-> handled, written |-> written]

IdleUpdate == Updating("idle", <<>>, FALSE, NilEntity, 0, <<>>)

\* Update, lines 166-170 and the validity check of json.Unmarshal: the body
\* is read; a body that cannot be read or does not decode goes to c.Handle.
UpdateRead(q) ==
    /\ put[q].pc = "idle"
    /\ \E body \in Bodies, fault \in {"none", "read"} :
          put' = [put EXCEPT ![q] =
                    IF fault = "read" THEN Updating("done", <<>>, FALSE, NilEntity, 1, <<>>)
                    ELSE IF ~UnmarshalJSON(body).ok
                         THEN Updating("done", body, FALSE, NilEntity, 1, <<>>)
                         ELSE Updating("unmarshalID", body, FALSE, NilEntity, 0, <<>>)]
    /\ UNCHANGED <<linkVars, daoVars, construction, served, unmarshaller, listing>>

\* Update, line 171: json.Unmarshal stores the decoded fields into the
\* shared c.Unmarshaller, one field after the other.
UpdateUnmarshalID(q) ==
    /\ put[q].pc = "unmarshalID"
    /\ unmarshaller' = [unmarshaller EXCEPT !.id = UnmarshalJSON(put[q].bodyBytes).entity.id]
    /\ put' = [put EXCEPT ![q].pc = "unmarshalData"]
    /\ UNCHANGED <<linkVars, daoVars, construction, served, listing>>

UpdateUnmarshalData(q) ==
    /\ put[q].pc = "unmarshalData"
    /\ unmarshaller' = [unmarshaller EXCEPT !.data = UnmarshalJSON(put[q].bodyBytes).entity.data]
    /\ put' = [put EXCEPT ![q].pc = "set"]
    /\ UNCHANGED <<linkVars, daoVars, construction, served, listing>>

\* Update, lines 176-189: c.DAO.Set(c.Unmarshaller.Entity()), then the
\* response base + "/" + id; an error of Set or getBaseURL goes to c.Handle.
UpdateSet(q) ==
    /\ put[q].pc = "set"
    /\ LET entity == unmarshaller
       IN  \E g \in Generated(entity), fault \in {"none", "exec", "baseURL"} :
              LET out == SetOutcome(store, entity, g, fault)
              IN  /\ Len(out.store) <= MaxRows
                  /\ store' = out.store
                  /\ put' = [put EXCEPT ![q] =
                        IF out.err \/ fault = "baseURL"
                        THEN Updating("done", put[q].bodyBytes, TRUE, entity, 1, <<>>)
                        ELSE Updating("done", put[q].bodyBytes, TRUE, entity, 0,
                                      URLString(BaseURI) \o <<"/", out.id>>)]
    /\ UNCHANGED <<linkVars, last, proc, construction, served, unmarshaller, listing>>

\* strconv.ParseBool: [ok, val]
ParseBool(str) ==
    IF str \in { <<"1">>, <<"t">>, <<"T">>, <<"T", "R", "U", "E">>,
                 <<"t", "r", "u", "e">>, <<"T", "r", "u", "e">> }
    THEN [ok |-> TRUE, val |-> TRUE]
    ELSE IF str \in { <<"0">>, <<"f">>, <<"F">>, <<"F", "A", "L", "S", "E">>,
                      <<"f", "a", "l", "s", "e">>, <<"F", "a", "l", "s", "e">> }
    THEN [ok |-> TRUE, val |-> FALSE]
    ELSE [ok |-> FALSE, val |-> FALSE]

\* The rows the list queries return for a page: those after the first
\* `offset` rows, `limit` of them at most.
Page(st, offset, limit) ==
    SubSeq(st, offset + 1, IF offset + limit < Len(st) THEN offset + limit ELSE Len(st))

\* An item of the collection: the address of an entity, or the entity.
Item(ref, entity) == [ref |-> ref, entity |-> entity]

\* DatabaseDAO.GetAllEntities, GetAllIDs and TotalNumberOfEntities, when
\* their query succeeds.
GetAllEntities(st, p) == ToEntities(Page(st, Offset(p), Limit(p)))
GetAllIDs(st, p) == [i \in DOMAIN Page(st, Offset(p), Limit(p)) |-> Page(st, Offset(p), Limit(p))[i][1]]
TotalNumberOfEntities(st) == Len(st)

\* What GetAll did: the DAO methods it called, in order, the number of
\* c.Handle calls, whether it wrote the collection response, and which.
Listed(calls, handled, written, resp) ==
    [calls |-> calls, handled |-> handled, written |-> written, response |-> resp]

\* DefaultController.GetAll on the request query `raw`, the table st and the
\* failure `fault` (none, baseURL, list, total, marshal).
GetAllOutcome(st, raw, fault) ==
    LET params    == ParseQuery(raw)
        loaded    == loadPaginationInfo(params)
        expandStr == ValuesGet(params, ExpandKey)
        expand    == IF expandStr # <<>> THEN ParseBool(expandStr)
                     ELSE [ok |-> TRUE, val |-> FALSE]
        p         == loaded.p
        listCall  == IF expand.val THEN "GetAllEntities" ELSE "GetAllIDs"
        entities  == GetAllEntities(st, p)
        ids       == IF fault = "list" THEN <<>> ELSE GetAllIDs(st, p)
        items     == IF expand.val
                     THEN [i \in DOMAIN entities |-> Item(<<>>, entities[i])]
                     ELSE [i \in DOMAIN ids |->
                              Item(URLString(BaseURI) \o <<"/", ids[i]>>, NilEntity)]
        \* line 115: the error of GetAllIDs is handled, the function goes on
        handled   == IF ~expand.val /\ fault = "list" THEN 1 ELSE 0
        built     == BuildResult([BaseURL |-> BaseURI, MaxNBItems |-> TotalNumberOfEntities(st),
                                  QueryParams |-> params, Items |-> items])
    IN  IF ~loaded.ok THEN Listed(<<>>, 1, FALSE, NoResponse)
        ELSE IF ~expand.ok THEN Listed(<<>>, 1, FALSE, NoResponse)
        ELSE IF fault = "baseURL" THEN Listed(<<>>, 1, FALSE, NoResponse)
        ELSE IF expand.val /\ fault = "list" THEN Listed(<<listCall>>, 1, FALSE, NoResponse)
        ELSE IF fault = "total"
             THEN Listed(<<listCall, "TotalNumberOfEntities">>, handled + 1, FALSE, NoResponse)
        ELSE IF built.err \/ fault = "marshal"
             THEN Listed(<<listCall, "TotalNumberOfEntities">>, handled + 1, FALSE, NoResponse)
        ELSE Listed(<<listCall, "TotalNumberOfEntities">>, handled, TRUE, built.response)

\* The queries and the failures GetAll is called with, and the tables it
\* finds.
ListQueries ==
    { RawQuery(o, l, Param(ExpandKey, e)) :
        o \in {<<>>, <<"1">>}, l \in {<<>>, <<"2">>, <<"x">>},
        e \in {<<>>, <<"t", "r", "u", "e">>, <<"f">>, <<"x">>} }
ListFaults == {"none", "baseURL", "list", "total", "marshal"}
ListStores == { <<>>, << <<"x", "a">> >>, << <<"x", "a">>, <<"y", "b">> >> }

NotListed == [called |-> FALSE, raw |-> <<>>, fault |-> "none",
              out |-> Listed(<<>>, 0, FALSE, NoResponse)]

\* c.GetAll(w, r, _)
GetAll ==
    /\ \E raw \in ListQueries, fault \in ListFaults :
          listing' = [called |-> TRUE, raw |-> raw, fault |-> fault,
                      out |-> GetAllOutcome(store, raw, fault)]
    /\ UNCHANGED <<linkVars, daoVars, construction, served, unmarshaller, put>>

\* Nothing was constructed, served, updated or listed.
WebIdle ==
    /\ construction = NotConstructed
    /\ served = NotServed
    /\ unmarshaller = NilEntity
    /\ put = [q \in Puts |-> IdleUpdate]
    /\ listing = NotListed

\* The link builder, given the request's query and the total count.
Init == InitLinks /\ DAOIdle /\ WebIdle

Build == BuildCall /\ UNCHANGED <<daoVars, webVars>>

Next == Build

Spec == Init /\ [][Next]_vars

\* The DAO under one caller making one call after the other.
InitDAO == LinksIdle /\ DAOIdle /\ WebIdle

NextDAO == Get \/ Set \/ Delete

SpecDAO == InitDAO /\ [][NextDAO]_vars

\* The DAO under concurrent requests: each call's queries interleave with the
\* other requests' queries.
InitRace ==
    /\ LinksIdle
    /\ WebIdle
    /\ store = <<>>
    /\ last = NoCall
    /\ proc = [p \in Procs |-> IdleRequest]

NextRace == \E p \in Procs : SetBegin(p) \/ SetCheck(p) \/ SetWrite(p) \/ DeleteCall(p)

SpecRace == InitRace /\ [][NextRace]_vars

\* The constructor of the DAO, on databases that refuse some of the queries.
InitNew == LinksIdle /\ DAOIdle /\ WebIdle

NextNew == NewDatabaseDAO

SpecNew == InitNew /\ [][NextNew]_vars

\* The middleware, serving one request after the other.
InitURL == LinksIdle /\ DAOIdle /\ WebIdle

NextURL == URLContructor

SpecURL == InitURL /\ [][NextURL]_vars

\* One controller handling PUT requests at the same time: the steps of the
\* Update calls interleave.
InitUpdate == LinksIdle /\ DAOIdle /\ WebIdle

NextUpdate ==
    \E q \in Puts : UpdateRead(q) \/ UpdateUnmarshalID(q) \/ UpdateUnmarshalData(q) \/ UpdateSet(q)

SpecUpdate == InitUpdate /\ [][NextUpdate]_vars

\* The controller listing the collection, over tables of some rows.
InitGetAll ==
    /\ LinksIdle
    /\ WebIdle
    /\ store \in ListStores
    /\ last = NoCall
    /\ proc = <<>>

NextGetAll == GetAll

SpecGetAll == InitGetAll /\ [][NextGetAll]_vars

\* ------------------------------------------------ claims: link builder ---

\* A link is present when it is not the zero URL.
LinkPresent(u) == URLString(u) # <<>>

\* The offset and the limit a link carries, read the way loadPaginationInfo
\* reads a request's query: the first value of the key, 0 when there is none.
LinkParam(u, k) ==
    LET str == ValuesGet(ParseQuery(u.rawQuery), k)
    IN  IF str = <<>> THEN [ok |-> TRUE, val |-> 0] ELSE ParseInt(str)
LinkOffset(u) == LinkParam(u, OffsetKey)
LinkLimit(u) == LinkParam(u, LimitKey)

Max(a, b) == IF a >= b THEN a ELSE b

Built == response # NoResponse

Links == {response.Current, response.First, response.Last, response.Previous, response.Next}

\* C1: for every limit > 0 and total >= 0 the offset of the `last` link is
\* max(0, (total/limit - (1 if total % limit = 0 else 0)) * limit): 0 when
\* total = 0, never negative.
C1_LastOffsetFormula ==
    (Built /\ pagination.limit > 0 /\ response.TotalNumberOfItems >= 0) =>
        LET total == response.TotalNumberOfItems
            limit == pagination.limit
            pages == (total \div limit) - (IF total % limit = 0 THEN 1 ELSE 0)
        IN  /\ LinkOffset(response.Last).ok
            /\ LinkOffset(response.Last).val = Max(0, pages * limit)

\* C2: for every offset >= 0, limit > 0 up to MaxInt64 and every total, `next`
\* is present iff offset + limit < total (as integers), and then its offset is
\* offset + limit.
C2_NextIffRoom ==
    (Built /\ pagination.offset >= 0 /\ pagination.limit > 0) =>
        LET room == pagination.offset + pagination.limit < response.TotalNumberOfItems
        IN  /\ LinkPresent(response.Next) <=> room
            /\ room => /\ LinkOffset(response.Next).ok
                       /\ LinkOffset(response.Next).val = pagination.offset + pagination.limit

\* C3: for every offset >= 0 and limit > 0, `previous` is absent when
\* offset = 0, and otherwise carries offset max(0, offset - limit) and the
\* request's limit.
C3_PreviousClamped ==
    (Built /\ pagination.offset >= 0 /\ pagination.limit > 0) =>
        IF pagination.offset = 0 THEN ~LinkPresent(response.Previous)
        ELSE /\ LinkPresent(response.Previous)
             /\ LinkOffset(response.Previous).ok
             /\ LinkOffset(response.Previous).val = Max(0, pagination.offset - pagination.limit)
             /\ LinkLimit(response.Previous).ok
             /\ Limit(NewPagination(0, LinkLimit(response.Previous).val)) = pagination.limit

\* C4: when the request's limit is absent, zero or negative, each of the five
\* links is the unmodified base URI: none absent, nothing appended.
C4_UnlimitedIsBaseURI ==
    (Built /\ pagination.limit <= 0 /\ pagination.offset >= 0) =>
        \A u \in Links : URLString(u) = URLString(builder.BaseURL)

\* C5: for a finite limit > 0, every present link is the base URI followed by
\* a query that parses back to exactly offset=O, limit=L and the request's
\* other parameters, each with its own name and value.
C5_QueryRoundTrip ==
    (Built /\ pagination.limit > 0 /\ pagination.limit # MaxInt64) =>
        \A u \in Links : LinkPresent(u) =>
            LET q == ParseQuery(u.rawQuery)
            IN  /\ u.path = builder.BaseURL.path
                /\ OffsetKey \in DOMAIN q /\ LimitKey \in DOMAIN q
                /\ Len(q[OffsetKey]) = 1 /\ ParseInt(q[OffsetKey][1]).ok
                /\ q[LimitKey] = <<FormatInt(pagination.limit)>>
                /\ ValuesDel(ValuesDel(q, OffsetKey), LimitKey) = builder.QueryParams
                /\ (u = response.Current => q[OffsetKey] = <<FormatInt(pagination.offset)>>)
                /\ (u = response.First => q[OffsetKey] = <<FormatInt(0)>>)


\* ---------------------------------------------------------- claims: DAO ---

Absent(st) == Outcome(st, Nil, NilEntity, FALSE, <<"get">>)

\* C6: Get(id) answers by the number of rows the get query yields for id:
\* none gives a nil entity and no error, one gives that entity and no error,
\* several give an error and no entity; and Get leaves the table as it was.
C6_GetByRowCount ==
    [][last'.op = "Get" =>
        LET rows == QueryGet(store, last'.key)
        IN  /\ store' = store
            /\ last'.fault = "none" =>
                 /\ Len(rows) = 0 => (last'.entity = NilEntity /\ ~last'.err)
                 /\ Len(rows) = 1 => /\ last'.entity = [id |-> rows[1][1], data |-> rows[1][2]]
                                     /\ ~last'.err
                 /\ Len(rows) > 1 => (last'.entity = NilEntity /\ last'.err)]_vars

\* A Get that found several rows for its identifier.
C6_AmbiguousGetReached ==
    last.op = "Get" /\ last.fault = "none" /\ last.matched > 1 /\ last.err

\* C7: a successful Set executes exactly one write query: insert with a
\* generated identifier for an entity that has none, insert when Get finds no
\* row of the entity's identifier, update when it finds one; and it returns
\* the generated identifier in the first case, the caller's otherwise.
C7_SetBranch ==
    [][(last'.op = "Set" /\ ~last'.err) =>
        LET e    == last'.arg
            rows == QueryGet(store, ID(e))
        IN  IF ID(e) = Nil
            THEN /\ last'.queries = <<"insert">>
                 /\ last'.gen \in IDS /\ last'.id = last'.gen
                 /\ store' = Append(store, <<last'.gen, e.data>>)
            ELSE IF rows = <<>>
            THEN /\ last'.queries = <<"get", "insert">>
                 /\ last'.id = ID(e)
                 /\ store' = Append(store, <<ID(e), e.data>>)
            ELSE /\ last'.queries = <<"get", "update">>
                 /\ last'.id = ID(e)
                 /\ Len(store') = Len(store)]_vars

\* A Set of an entity whose identifier had no row: it inserted.
C7_InsertOfAbsentIdReached ==
    /\ last.op = "Set" /\ ~last.err /\ ID(last.arg) # Nil
    /\ last.matched = 0 /\ last.queries = <<"get", "insert">>

\* C8 as stated: in any table, after a successful Set of an entity without
\* identifier, Get on the returned identifier yields one entity, the input
\* with that identifier attached, and the input still has no identifier.
C8_RoundTrip ==
    (last.op = "Set" /\ ID(last.arg) = Nil /\ ~last.err) =>
        /\ last.id \in IDS
        /\ GetOutcome(store, last.id, "none")
             = Outcome(store, Nil, [id |-> last.id, data |-> last.arg.data], FALSE, <<"get">>)

\* C8 amended: the same, provided the generated identifier had no row in the
\* table when Set was called.
C8_RoundTripFreshId ==
    [][(last'.op = "Set" /\ ID(last'.arg) = Nil /\ ~last'.err
         /\ QueryGet(store, last'.gen) = <<>>) =>
        /\ last'.id \in IDS
        /\ ID(last'.arg) = Nil
        /\ GetOutcome(store', last'.id, "none")
             = Outcome(store', Nil, [id |-> last'.id, data |-> last'.arg.data], FALSE,
                       <<"get">>)]_vars

\* A Set that generated an identifier new to a table that already held rows.
C8_FreshInsertReached ==
    /\ last.op = "Set" /\ ID(last.arg) = Nil /\ ~last.err
    /\ last.matched = 0 /\ Len(store) >= 2

\* C9: Set's existence check and its write are separate steps, and the write
\* follows what the check saw, whatever the table holds by then: a Set that
\* saw no row executes insert, one that saw a row executes update and returns
\* its identifier as success, also when no row is left to update.
C9_WriteFollowsStaleCheck ==
    \A p \in DOMAIN proc :
        (proc[p].pc = "done" /\ proc[p].op = "Set" /\ proc[p].observed # "none") =>
            /\ proc[p].did = "insert" <=> proc[p].observed = "absent"
            /\ proc[p].did = "update" <=> proc[p].observed = "present"
            /\ (proc[p].did = "update" /\ ~proc[p].err) => proc[p].id = ID(proc[p].arg)

\* Both races at once: two Sets of one identifier both saw it absent and both
\* executed insert, the second one onto an existing row, leaving two rows; and
\* another Set saw its row, lost it to a Delete, updated nothing and returned
\* success.
C9_BothRacesReached ==
    \E p, q, r \in DOMAIN proc :
        /\ p # q /\ q # r /\ p # r
        /\ \A t \in {p, q, r} : proc[t].pc = "done" /\ proc[t].op = "Set" /\ ~proc[t].err
        /\ proc[p].observed = "absent" /\ proc[p].did = "insert"
        /\ proc[q].observed = "absent" /\ proc[q].did = "insert"
        /\ ID(proc[p].arg) = ID(proc[q].arg)
        /\ proc[q].matched >= 1
        /\ Len(QueryGet(store, ID(proc[p].arg))) = 2
        /\ proc[r].observed = "present" /\ proc[r].did = "update"
        /\ proc[r].matched = 0 /\ proc[r].id = ID(proc[r].arg)

\* C10: Delete(id) executes the delete query and nothing else, fails only when
\* that execution fails, and otherwise succeeds whether or not a row matched:
\* no row of id is left, so Get(id) is absent; the rows of other identifiers
\* are as before; the table is unchanged when no row matched; and a second
\* Delete(id) succeeds again.
C10_DeleteFrame ==
    [][last'.op = "Delete" =>
        LET id == last'.key
        IN  /\ last'.queries = <<"delete">>
            /\ last'.err <=> last'.fault = "exec"
            /\ last'.err => store' = store
            /\ ~last'.err =>
                 /\ GetOutcome(store', id, "none") = Absent(store')
                 /\ \A other \in IDS \ {id} : QueryGet(store', other) = QueryGet(store, other)
                 /\ Len(store') = Len(store) - Len(QueryGet(store, id))
                 /\ QueryGet(store, id) = <<>> => store' = store
                 /\ DeleteOutcome(store', id, "none")
                      = Outcome(store', Nil, NilEntity, FALSE, <<"delete">>)]_vars

\* A Delete that removed a row and left the rows of another identifier.
C10_DeleteOfRowReached ==
    /\ last.op = "Delete" /\ ~last.err /\ last.matched >= 1
    /\ store # <<>>

\* ------------------------------------------------ claims: NewDatabaseDAO ---

\* The seven catalog queries in the order list, list-ids, count, get, insert,
\* update, delete.
CatalogOrder == <<"list", "list-ids", "count", "get", "insert", "update", "delete">>

\* C11: NewDatabaseDAO prepares each of the seven catalog queries exactly
\* once, in the order list, list-ids, count, get, insert, update, delete; at
\* the first query that fails to prepare it stops (no later query is
\* prepared), returns an error naming that query and no DAO; only when all
\* seven prepare does it return a DAO holding all seven handles.
C11_PrepareInOrderFailFast ==
    construction.called =>
        LET out    == construction.out
            failAt == {i \in DOMAIN CatalogOrder : CatalogOrder[i] \in construction.failing}
        IN  IF failAt = {}
            THEN /\ out.prepares = CatalogOrder
                 /\ out.dao
                 /\ out.err = Nil
                 /\ {h[2] : h \in out.queries} = {CatalogOrder[i] : i \in DOMAIN CatalogOrder}
                 /\ Cardinality(out.queries) = 7
            ELSE LET first == CHOOSE i \in failAt : \A j \in failAt : i <= j
                 IN  /\ out.prepares = SubSeq(CatalogOrder, 1, first)
                     /\ out.err = CatalogOrder[first]
                     /\ ~out.dao
                     /\ out.queries = {}

\* A construction on a database that refuses two of the queries, get the
\* first of them.
C11_FailFastAtGetReached ==
    /\ construction.called
    /\ construction.failing = {"get", "update"}
    /\ construction.out.err = "get"
    /\ Len(construction.out.prepares) = 4

\* -------------------------------------------------- claims: URLContructor ---

\* C12: for every request, whatever its method and URL, URLContructor invokes
\* the wrapped handler exactly once, and the request the handler receives has
\* a context value under FULL_URL_KEY that is present and equal to the URL
\* string of the incoming request.
C12_HandlerGetsURL ==
    served.called =>
        /\ Len(served.handled) = 1
        /\ Value(served.handled[1].ctx, FULL_URL_KEY)
             = [found |-> TRUE, val |-> URLString(served.request.url)]

\* A DELETE with a query, whose context already had a value under the key.
C12_StaleValueOverridden ==
    /\ served.called
    /\ served.request.method = "DELETE"
    /\ served.request.url.rawQuery # <<>>
    /\ Value(served.request.ctx, FULL_URL_KEY).found
    /\ Value(served.request.ctx, FULL_URL_KEY).val # URLString(served.request.url)

\* ---------------------------------------------- claims: Build, repeated ---

\* C13: Build is repeatable: it leaves the builder's QueryParams (its offset
\* and limit entries included) unchanged, so two consecutive Build calls on
\* the same builder return responses with the same Offset, Limit and the same
\* five links.
C13_BuildRepeatable ==
    [][/\ builder'.QueryParams = builder.QueryParams
       /\ (response # NoResponse /\ response' # NoResponse) =>
             /\ response'.Offset = response.Offset
             /\ response'.Limit = response.Limit
             /\ response'.Current = response.Current
             /\ response'.First = response.First
             /\ response'.Last = response.Last
             /\ response'.Previous = response.Previous
             /\ response'.Next = response.Next]_vars

\* ------------------------------------------- claims: concurrent Update ---

\* C14: when two PUT requests are handled concurrently by one controller,
\* under every interleaving each Update call passes to DAO.Set the entity
\* decoded from its own request body, and responds with the identifier of
\* its own entity.
C14_UpdatePassesOwnEntity ==
    \A q \in Puts :
        put[q].called =>
            LET own == UnmarshalJSON(put[q].bodyBytes).entity
            IN  /\ put[q].passed = own
                /\ (put[q].written # <<>> /\ ID(own) # Nil) =>
                      put[q].written = URLString(BaseURI) \o <<"/", ID(own)>>

\* ------------------------------------------------------ claims: GetAll ---

\* C15: in GetAll, as soon as a DAO call fails (GetAllEntities, GetAllIDs or
\* TotalNumberOfEntities) and the error handler has been invoked, the handler
\* stops: no further DAO call, no collection response body; each request ends
\* in either the error response or the collection response, never both.
C15_GetAllStopsAfterDAOError ==
    listing.called =>
        LET out == listing.out
        IN  /\ ~(out.handled > 0 /\ out.written)
            /\ out.handled <= 1
            /\ (listing.fault = "list" /\ out.calls # <<>>) =>
                  /\ Len(out.calls) = 1
                  /\ out.handled = 1
            /\ (listing.fault = "total" /\ Len(out.calls) = 2) =>
                  /\ out.handled = 1
                  /\ ~out.written

\* ------------------------------------------ claims: sequential uniqueness ---

\* At most one row per identifier.
Unique(st) == \A id \in IDS : Len(QueryGet(st, id)) <= 1

\* C16: from a table with at most one row per identifier, and with a
\* generator that never returns an identifier already in the table, every
\* non-interleaved Set and Delete leaves at most one row per identifier, and
\* Get does not fail with the ambiguous-result error.
C16_SequentialUniqueness ==
    [][(/\ Unique(store)
        /\ (last'.op = "Set" /\ last'.gen # Nil) => QueryGet(store, last'.gen) = <<>>) =>
          /\ Unique(store')
          /\ (last'.op = "Get" /\ last'.fault = "none") => ~last'.err]_vars

\* A table of two rows with two identifiers, the second just inserted under
\* a generated identifier that had no row.
C16_UniqueAfterInsertsReached ==
    /\ Unique(store)
    /\ Len(store) = 2
    /\ last.op = "Set" /\ last.gen # Nil /\ ~last.err /\ last.matched = 0
    /\ last.queries = <<"insert">>

====
